---- MODULE Spec2Model ----
(***************************************************************************)
(* Model of src/src/slides_tools.py: the tools that read and edit a remote *)
(* presentation.  The remote document is the only state; every tool call   *)
(* is one action: the read tools fetch the document, the text tools submit *)
(* a batch of requests to it, the structural tools (add_element,           *)
(* duplicate_slide) fetch it and then submit a batch.  The tools that      *)
(* src/src/server.py registers are actions on top of these.                *)
(*                                                                         *)
(* Strings that the code slices, trims or measures (text-run contents,     *)
(* new texts, summaries) are sequences of one-character strings.           *)
(* Identifiers and enum tokens that the code only compares are strings.    *)
(* Element position and per-run / per-paragraph style records of get_slide *)
(* are copied through by the code and are not part of this model.          *)
(***************************************************************************)
EXTENDS Integers, Sequences, FiniteSets, TLC

VARIABLES
    presentation,   \* the remote document: [slides |-> <<slide, ...>>]
    tolerant,       \* whether the remote service accepts a deleteText whose range is empty
    before,         \* the remote document as it was when the last call started
    call,           \* the last tool call: [tool |-> ..., <arguments>]
    outcome,        \* what the last call returned or raised
    sent,           \* the batches the last call submitted, in order, with the service's verdict
    remote,         \* the remote calls the last call issued, reads and writes, in order
    overwrites,     \* whether the remote service overwrites on a creation with an id in use
    added,          \* the ids add_element has synthesized so far, call after call:
                    \* <<[slide_number, type, id], ...>>
    token_file,     \* the credentials stored at OAUTH_CLIENT_TOKEN
    sockets,        \* every socket get_drive_service has opened, in order:
                    \* <<[role, port, closed], ...>>
    handshake       \* where get_drive_service is, with its locals:
                    \* [pc, port, state, result]

vars == <<presentation, tolerant, before, call, outcome, sent, remote, overwrites, added,
          token_file, sockets, handshake>>

-----------------------------------------------------------------------------
(* Bounds of the model *)

MaxNodes == 4       \* page elements (groups included) on a generated slide tree
MaxLen == 2         \* length of a text content / of a new text
MaxSlides == 2      \* slides of a generated presentation
MaxPairs == 2       \* entries of a replace_slide_elements list
MaxItems == 3       \* top-level elements plus text elements on a summarized slide

MaxParagraphs == 3  \* text elements of a generated shape

MaxAdded == 2       \* add_element calls that reach the synthesis of an id

MaxPage == 2        \* page width and height, in tens

MaxHandshakes == 2  \* authorization handshakes that get as far as the port probe

MaxPorts == 3       \* local ports the system may hand out

(* Program constants *)

SummaryLimit == 50  \* text[:50], len(text) > 50

DefaultPageWidth == 720     \* .get('magnitude', 720)
DefaultPageHeight == 540    \* .get('magnitude', 540)
SizeWidthTenths == 6        \* page_width * 0.6
SizeHeightTenths == 4       \* page_height * 0.4
TopTenths == 1              \* page_height * 0.1
BottomTenths == 5           \* page_height * 0.5
DefaultRows == 2            \* element.get('rows', 2)
DefaultCols == 2            \* element.get('cols', 2)

(* get_drive_service is not running *)

Idle == [pc |-> "idle"]

-----------------------------------------------------------------------------
(* Strings as sequences of characters *)

Whitespace == {" ", "\n"}

Ellipsis == <<".", ".", ".">>

RECURSIVE lstrip(_)
lstrip(s) == IF s # <<>> /\ Head(s) \in Whitespace THEN lstrip(Tail(s)) ELSE s

RECURSIVE rstrip(_)
rstrip(s) ==
    IF s # <<>> /\ s[Len(s)] \in Whitespace THEN rstrip(SubSeq(s, 1, Len(s) - 1)) ELSE s

\* str.strip()
strip(s) == rstrip(lstrip(s))

\* needle in hay, for str
Contains(hay, needle) ==
    \E i \in 1..(Len(hay) - Len(needle) + 1) : SubSeq(hay, i, i + Len(needle) - 1) = needle

\* s[:n]
Prefix(s, n) == SubSeq(s, 1, IF Len(s) < n THEN Len(s) ELSE n)

-----------------------------------------------------------------------------
(* The wire representation of a page element.  `kind` is the key the       *)
(* element carries ('shape', 'image', 'table', 'video', 'elementGroup', or *)
(* another one such as 'line').  An absent optional key is a record with   *)
(* present = FALSE.                                                        *)

TextRun(content) == [kind |-> "textRun", content |-> content, bullet |-> FALSE]
ParagraphMarker(bullet) == [kind |-> "paragraphMarker", content |-> <<>>, bullet |-> bullet]

NoText == [present |-> FALSE, textElements |-> <<>>]
Text(tes) == [present |-> TRUE, textElements |-> tes]

NoPlaceholder == [present |-> FALSE, type |-> <<>>]
Placeholder(type) == [present |-> TRUE, type |-> type]

Shape(id, shapeType, text, placeholder) ==
    [objectId |-> id, kind |-> "shape", shapeType |-> shapeType,
     text |-> text, placeholder |-> placeholder]
Image(id) == [objectId |-> id, kind |-> "image", contentUrl |-> "url"]
Table(id) == [objectId |-> id, kind |-> "table", rows |-> 2, columns |-> 2]
Video(id) == [objectId |-> id, kind |-> "video", url |-> "url"]
Line(id) == [objectId |-> id, kind |-> "line"]
ElementGroup(id, children) == [objectId |-> id, kind |-> "elementGroup", children |-> children]

Slide(id, pageElements) == [objectId |-> id, pageElements |-> pageElements]

\* a page dimension: a magnitude in a unit ("EMU" or "PT")
Dimension(magnitude, unit) == [magnitude |-> magnitude, unit |-> unit]

NoPageSize == [present |-> FALSE, width |-> Dimension(0, ""), height |-> Dimension(0, "")]
PageSize(width, height, unit) ==
    [present |-> TRUE, width |-> Dimension(width, unit), height |-> Dimension(height, unit)]

Presentation(slides) ==
    [presentationId |-> "doc", title |-> "Deck", slides |-> slides, pageSize |-> NoPageSize]

-----------------------------------------------------------------------------
(* get_slide: the element flattener *)

\* bool(result) for what process_element returns: None, a dict or a list
Truthy(result) ==
    \/ result.tag = "dict"
    \/ result.tag = "list" /\ result.items # <<>>

None == [tag |-> "none", items |-> <<>>]
Dict(d) == [tag |-> "dict", items |-> <<d>>]
List(l) == [tag |-> "list", items |-> l]

\* ''.join(text_content): the contents of the text runs, in order
RECURSIVE text_content(_)
text_content(tes) ==
    IF tes = <<>> THEN <<>>
    ELSE (IF Head(tes).kind = "textRun" THEN Head(tes).content ELSE <<>>)
         \o text_content(Tail(tes))

has_bullets_mutant(tes) ==
    \E i \in 1..Len(tes) :
        /\ tes[i].kind = "paragraphMarker" /\ tes[i].bullet
        /\ \A j \in 1..(i - 1) : tes[j].kind # "paragraphMarker"

has_bullets(tes) ==
    \E i \in 1..Len(tes) : tes[i].kind = "paragraphMarker" /\ tes[i].bullet

TITLE == <<"T", "I", "T", "L", "E">>
CENTERED_TITLE == <<"C", "E", "N", "T", "E", "R", "E", "D", "_">> \o TITLE
SUBTITLE == <<"S", "U", "B">> \o TITLE
BODY == <<"B", "O", "D", "Y">>

role_of(shape) ==
    LET placeholder_type == IF shape.placeholder.present THEN shape.placeholder.type ELSE <<>>
    IN  IF Contains(placeholder_type, TITLE) \/ Contains(placeholder_type, CENTERED_TITLE)
        THEN "title"
        ELSE IF Contains(placeholder_type, BODY) \/ Contains(placeholder_type, SUBTITLE)
        THEN "body"
        ELSE IF shape.shapeType = "TEXT_BOX" THEN "textbox"
        ELSE "text"

is_text_shape_mutant(shape) ==
    \/ shape.shapeType = "TEXT_BOX"
    \/ shape.text.present /\ text_content(shape.text.textElements) # <<>>
    \/ shape.placeholder.present

is_text_shape(shape) ==
    \/ shape.shapeType = "TEXT_BOX"
    \/ shape.text.present
    \/ shape.placeholder.present

\* the 'shape' branch of process_element
process_shape(page_elem) ==
    LET tes == IF page_elem.text.present THEN page_elem.text.textElements ELSE <<>>
        text == strip(text_content(tes))
    IN  IF is_text_shape(page_elem)
        THEN Dict([id |-> page_elem.objectId, type |-> "text", role |-> role_of(page_elem),
                   text |-> text,
                   format |-> IF has_bullets(tes) THEN "bullets" ELSE "plain"])
        ELSE None

RECURSIVE process_element(_)
RECURSIVE group_elements(_, _)

\* the loop over a group's children, accumulating into group_elements
group_elements_mutant(children, acc) ==
    IF children = <<>> THEN acc
    ELSE LET result == process_element(Head(children))
         IN  group_elements(Tail(children),
                IF Truthy(result)
                THEN Append(acc, result.items[1])
                ELSE acc)

group_elements(children, acc) ==
    IF children = <<>> THEN acc
    ELSE LET result == process_element(Head(children))
         IN  group_elements(Tail(children),
                IF Truthy(result)
                THEN (IF result.tag = "list" THEN acc \o result.items
                      ELSE Append(acc, result.items[1]))
                ELSE acc)

process_element(page_elem) ==
    CASE page_elem.kind = "shape" -> process_shape(page_elem)
      [] page_elem.kind = "image" ->
            Dict([id |-> page_elem.objectId, type |-> "image", url |-> page_elem.contentUrl])
      [] page_elem.kind = "table" ->
            Dict([id |-> page_elem.objectId, type |-> "table",
                  rows |-> page_elem.rows, cols |-> page_elem.columns])
      [] page_elem.kind = "video" ->
            Dict([id |-> page_elem.objectId, type |-> "video", url |-> page_elem.url])
      [] page_elem.kind = "elementGroup" -> List(group_elements(page_elem.children, <<>>))
      [] OTHER -> None

\* the loop over slide['pageElements'], accumulating into elements
RECURSIVE slide_elements(_, _)
slide_elements(pageElements, acc) ==
    IF pageElements = <<>> THEN acc
    ELSE LET result == process_element(Head(pageElements))
         IN  slide_elements(Tail(pageElements),
                IF Truthy(result)
                THEN (IF result.tag = "list" THEN acc \o result.items
                      ELSE Append(acc, result.items[1]))
                ELSE acc)

-----------------------------------------------------------------------------
(* The tool calls.  Every call first acquires the capability handle        *)
(* (get_drive_service, get_slides_service), which may raise; a read or a   *)
(* batch write may fail in transport.  `fault` chooses which, if any.      *)

ReadFaults == {"none", "auth", "read"}
WriteFaults == {"none", "auth", "write"}

\* between calls: nothing called, nothing returned
NoCall == [tool |-> "none"]
NoOutcome == [status |-> "none", error |-> "", value |-> <<>>]

Raised(error) == [status |-> "raised", error |-> error, value |-> <<>>]
Returned(value) == [status |-> "ok", error |-> "", value |-> value]

\* one presentations().get(...).execute(), unless the handle was not acquired
fetches(fault) ==
    IF fault = "auth" THEN <<>> ELSE <<[api |-> "get", ok |-> fault # "read"]>>

\* one presentations().batchUpdate(...).execute() for every batch submitted
writes(log) == [i \in 1..Len(log) |-> [api |-> "batchUpdate", ok |-> log[i].verdict = "applied"]]

slides_of(p) == p.slides

\* slide_number < 1 or slide_number > len(slides)
out_of_range(slide_number, slides) == slide_number < 1 \/ slide_number > Len(slides)

get_slide(p, slide_number, fault) ==
    IF fault = "auth" THEN Raised("AuthFailure")
    ELSE IF fault = "read" THEN Raised("TransportFailure")
    ELSE LET slides == slides_of(p)
         IN  IF out_of_range(slide_number, slides) THEN Raised("ValueError")
             ELSE LET slide == slides[slide_number]
                  IN  Returned([num |-> slide_number, id |-> slide.objectId,
                                elements |-> slide_elements(slide.pageElements, <<>>)])

GetSlide(slide_number, fault) ==
    /\ call = NoCall
    /\ call' = [tool |-> "get_slide", slide_number |-> slide_number, fault |-> fault]
    /\ outcome' = get_slide(presentation, slide_number, fault)
    /\ before' = presentation
    /\ sent' = <<>>
    /\ remote' = fetches(fault)
    /\ UNCHANGED <<presentation, tolerant, overwrites, added, token_file, sockets, handshake>>

-----------------------------------------------------------------------------
(* Generated slide trees: every forest of at most MaxNodes page elements,  *)
(* each with an object id unique in the presentation (its path).           *)

ChildId(pre, i) == pre \o "_" \o ToString(i)

SampleRun == <<ParagraphMarker(FALSE), TextRun(<<"a", "\n">>)>>

LeafShapes(id) ==
    { Shape(id, st, tx, ph) :
        st \in {"TEXT_BOX", "RECTANGLE"},
        tx \in {NoText, Text(<<>>), Text(SampleRun)},
        ph \in {NoPlaceholder, Placeholder(TITLE)} }

AllLeaves(id) == LeafShapes(id) \cup {Image(id), Table(id), Video(id), Line(id)}

\* the leaves of the larger trees: one decorative shape, one text box with
\* text, one empty placeholder, one directly emitted element, one ignored one
FewLeaves(id) ==
    { Shape(id, "RECTANGLE", NoText, NoPlaceholder),
      Shape(id, "TEXT_BOX", Text(SampleRun), NoPlaceholder),
      Shape(id, "RECTANGLE", NoText, Placeholder(TITLE)),
      Image(id), Line(id) }

Leaves(id, total) == IF total <= MaxNodes - 2 THEN AllLeaves(id) ELSE FewLeaves(id)

RECURSIVE Forests(_, _, _, _)
RECURSIVE Trees(_, _, _)

\* the trees of exactly k elements whose root has object id `id`
Trees(k, id, total) ==
    IF k = 1 THEN Leaves(id, total) \cup {ElementGroup(id, <<>>)}
    ELSE { ElementGroup(id, f) : f \in Forests(k - 1, id, 1, total) }

\* the sequences of trees of n elements in all, the first being child i of `pre`
Forests(n, pre, i, total) ==
    IF n = 0 THEN {<<>>}
    ELSE UNION { { <<t>> \o f : t \in Trees(k, ChildId(pre, i), total),
                                f \in Forests(n - k, pre, i + 1, total) } : k \in 1..n }

\* the slide trees of at most `most` elements
SlideTrees(most) == UNION { Forests(n, "p1", 1, n) : n \in 0..most }

InitFlatten ==
    /\ presentation \in { Presentation(<<Slide("p1", f)>>) : f \in SlideTrees(MaxNodes) }
    /\ tolerant = TRUE
    /\ before = presentation
    /\ call = NoCall
    /\ outcome = NoOutcome
    /\ sent = <<>>
    /\ remote = <<>>
    /\ overwrites = FALSE
    /\ added = <<>>
    /\ token_file = "valid"
    /\ sockets = <<>>
    /\ handshake = Idle

NextFlatten == \E n \in 1..Len(presentation.slides) : GetSlide(n, "none")

SpecFlatten == InitFlatten /\ [][NextFlatten]_vars

-----------------------------------------------------------------------------
(* Generated shapes: every shape type, placeholder type and sequence of at *)
(* most MaxParagraphs text elements, bulleted paragraphs among them.       *)

OBJECT == <<"O", "B", "J", "E", "C", "T">>

PlaceholderChoices ==
    { NoPlaceholder, Placeholder(<<>>), Placeholder(TITLE), Placeholder(CENTERED_TITLE),
      Placeholder(SUBTITLE), Placeholder(BODY), Placeholder(OBJECT) }

ParagraphChoices == { ParagraphMarker(FALSE), ParagraphMarker(TRUE), TextRun(<<"a", "\n">>) }

RECURSIVE ParagraphSeqs(_)
ParagraphSeqs(m) ==
    IF m = 0 THEN {<<>>}
    ELSE ParagraphSeqs(m - 1)
         \cup { <<te>> \o rest : te \in ParagraphChoices,
                                 rest \in { r \in ParagraphSeqs(m - 1) : Len(r) = m - 1 } }

GeneratedShapes(id, most) ==
    { Shape(id, st, tx, ph) :
        st \in {"TEXT_BOX", "RECTANGLE"},
        tx \in {NoText} \cup { Text(tes) : tes \in ParagraphSeqs(most) },
        ph \in PlaceholderChoices }

InitShapes ==
    /\ presentation \in { Presentation(<<Slide("p1", <<shape>>)>>) :
                              shape \in GeneratedShapes("p1_1", MaxParagraphs) }
    /\ tolerant = TRUE
    /\ before = presentation
    /\ call = NoCall
    /\ outcome = NoOutcome
    /\ sent = <<>>
    /\ remote = <<>>
    /\ overwrites = FALSE
    /\ added = <<>>
    /\ token_file = "valid"
    /\ sockets = <<>>
    /\ handshake = Idle

NextShapes == GetSlide(1, "none")

SpecShapes == InitShapes /\ [][NextShapes]_vars

-----------------------------------------------------------------------------
(* Positions in a slide's element tree, independent of the traversal: a    *)
(* path is the sequence of child indexes from the slide to an element.     *)

RECURSIVE PathsOf(_)
PathsOf(forest) ==
    UNION { {<<i>>} \cup
            (IF forest[i].kind = "elementGroup"
             THEN { <<i>> \o p : p \in PathsOf(forest[i].children) }
             ELSE {}) : i \in 1..Len(forest) }

RECURSIVE NodeAt(_, _)
NodeAt(forest, path) ==
    IF Len(path) = 1 THEN forest[path[1]]
    ELSE NodeAt(forest[path[1]].children, Tail(path))

\* document order of two positions neither of which is above the other
DocBefore(p, q) ==
    \E i \in 1..Len(p) :
        /\ i <= Len(q)
        /\ SubSeq(p, 1, i - 1) = SubSeq(q, 1, i - 1)
        /\ p[i] < q[i]

-----------------------------------------------------------------------------
(* The remote service's side of a batch write: the primitive operations on *)
(* a shape's text body and the all-or-nothing application of a batch.      *)

InsertText(id, text, index) ==
    [op |-> "insertText", objectId |-> id, text |-> text, index |-> index]
DeleteText(id, startIndex) ==
    [op |-> "deleteText", objectId |-> id, text |-> <<>>, index |-> startIndex]

\* the positions <<slide, i, j, ...>> of the page elements of a presentation
ElementPaths(p) ==
    UNION { { <<n>> \o q : q \in PathsOf(p.slides[n].pageElements) } : n \in 1..Len(p.slides) }

ElementAt(p, path) == NodeAt(p.slides[path[1]].pageElements, Tail(path))

ShapePaths(p, id) ==
    { path \in ElementPaths(p) :
        ElementAt(p, path).objectId = id /\ ElementAt(p, path).kind = "shape" }

HasShape(p, id) == ShapePaths(p, id) # {}

ShapeOf(p, id) == ElementAt(p, CHOOSE path \in ShapePaths(p, id) : TRUE)

\* the text content of a shape: its run contents in order
ContentOf(p, id) == text_content(ShapeOf(p, id).text.textElements)

RECURSIVE ReplaceAt(_, _, _)
ReplaceAt(forest, path, node) ==
    [i \in 1..Len(forest) |->
        IF i # path[1] THEN forest[i]
        ELSE IF Len(path) = 1 THEN node
        ELSE [forest[i] EXCEPT !.children = ReplaceAt(forest[i].children, Tail(path), node)]]

WithShape(p, id, shape) ==
    LET path == CHOOSE q \in ShapePaths(p, id) : TRUE
    IN  [p EXCEPT !.slides[path[1]].pageElements = ReplaceAt(@, Tail(path), shape)]

\* text inserted at an index joins the run at that index
RECURSIVE insert_runs(_, _, _)
insert_runs(tes, text, index) ==
    IF text = <<>> THEN tes
    ELSE IF tes = <<>> THEN <<TextRun(text)>>
    ELSE IF Head(tes).kind # "textRun" THEN <<Head(tes)>> \o insert_runs(Tail(tes), text, index)
    ELSE IF index <= Len(Head(tes).content)
    THEN <<TextRun(SubSeq(Head(tes).content, 1, index) \o text
                   \o SubSeq(Head(tes).content, index + 1, Len(Head(tes).content)))>>
         \o Tail(tes)
    ELSE <<Head(tes)>> \o insert_runs(Tail(tes), text, index - Len(Head(tes).content))

\* the text from a start index to the end of the body is removed, and the
\* runs left empty with it
RECURSIVE delete_runs(_, _)
delete_runs(tes, start) ==
    IF tes = <<>> THEN <<>>
    ELSE IF Head(tes).kind # "textRun" THEN <<Head(tes)>> \o delete_runs(Tail(tes), start)
    ELSE IF start >= Len(Head(tes).content)
    THEN <<Head(tes)>> \o delete_runs(Tail(tes), start - Len(Head(tes).content))
    ELSE (IF start = 0 THEN <<>> ELSE <<TextRun(SubSeq(Head(tes).content, 1, start))>>)
         \o delete_runs(Tail(tes), 0)

\* the object ids in use: those of the slides and of the page elements
IdsInUse(p) ==
    { p.slides[n].objectId : n \in 1..Len(p.slides) }
    \cup { ElementAt(p, path).objectId : path \in ElementPaths(p) }

SlideWithId(p, id) == CHOOSE n \in 1..Len(p.slides) : p.slides[n].objectId = id

HasSlide(p, id) == \E n \in 1..Len(p.slides) : p.slides[n].objectId = id

\* the ids the service gives to the copy of a slide and to the copies of its
\* elements: ids that are not in use
CopyId(p) == "copy" \o ToString(Len(p.slides))

RECURSIVE CopyOf(_, _)
CopyOf(forest, pre) ==
    [i \in 1..Len(forest) |->
        IF forest[i].kind = "elementGroup"
        THEN [forest[i] EXCEPT !.objectId = pre \o "_" \o @,
                               !.children = CopyOf(@, pre)]
        ELSE [forest[i] EXCEPT !.objectId = pre \o "_" \o @]]

\* the copy of a slide is placed right after the slide
Duplicated(p, id) ==
    LET n == SlideWithId(p, id)
        copy == Slide(CopyId(p), CopyOf(p.slides[n].pageElements, CopyId(p)))
    IN  [p EXCEPT !.slides = SubSeq(@, 1, n) \o <<copy>> \o SubSeq(@, n + 1, Len(@))]

NotWithId(id, elements) == SelectSeq(elements, LAMBDA e : e.objectId # id)

\* the page element a creation request makes
Created(request) ==
    IF request.op = "createImage"
    THEN [Image(request.objectId) EXCEPT !.contentUrl = request.url]
    ELSE [Table(request.objectId) EXCEPT !.rows = request.rows, !.columns = request.columns]

\* the element is put on its page; an element that had the id is replaced
CreatedOn(p, request) ==
    LET n == SlideWithId(p, request.pageObjectId)
        cleared == [i \in 1..Len(p.slides) |->
                        [p.slides[i] EXCEPT !.pageElements = NotWithId(request.objectId, @)]]
    IN  [p EXCEPT !.slides =
            [cleared EXCEPT ![n].pageElements = Append(@, Created(request))]]

\* whether the service accepts one request on document p
Accepts(p, request, accept_empty) ==
    CASE request.op \in {"createImage", "createTable"} ->
            /\ HasSlide(p, request.pageObjectId)
            /\ request.objectId \in IdsInUse(p) => overwrites /\ ~HasSlide(p, request.objectId)
      [] request.op = "duplicateObject" -> HasSlide(p, request.objectId)
      [] OTHER ->
            /\ HasShape(p, request.objectId)
            /\ LET length == Len(ContentOf(p, request.objectId))
               IN  IF request.op = "insertText" THEN request.index <= length
                   ELSE \/ request.index < length
                        \/ request.index = length /\ accept_empty

ApplyTextRequest(p, request) ==
    LET shape == ShapeOf(p, request.objectId)
        tes == shape.text.textElements
    IN  WithShape(p, request.objectId,
            [shape EXCEPT !.text =
                IF request.op = "insertText"
                THEN (IF request.text = <<>> THEN @
                      ELSE Text(insert_runs(tes, request.text, request.index)))
                ELSE [@ EXCEPT !.textElements = delete_runs(tes, request.index)]])

ApplyRequest(p, request) ==
    CASE request.op \in {"createImage", "createTable"} -> CreatedOn(p, request)
      [] request.op = "duplicateObject" -> Duplicated(p, request.objectId)
      [] OTHER -> ApplyTextRequest(p, request)

\* the requests applied in order; ok is FALSE as soon as one is refused
RECURSIVE ApplyRequests(_, _, _)
ApplyRequests(p, requests, accept_empty) ==
    IF requests = <<>> THEN [ok |-> TRUE, presentation |-> p]
    ELSE IF ~Accepts(p, Head(requests), accept_empty) THEN [ok |-> FALSE, presentation |-> p]
    ELSE ApplyRequests(ApplyRequest(p, Head(requests)), Tail(requests), accept_empty)

\* batchWrite: all of the batch or none of it
batchUpdate(p, requests, accept_empty) ==
    LET applied == ApplyRequests(p, requests, accept_empty)
    IN  IF applied.ok THEN applied ELSE [ok |-> FALSE, presentation |-> p]

-----------------------------------------------------------------------------
(* update_text and replace_slide_elements: the mutation planner *)

update_requests_mutant(element_id, text) ==
    << InsertText(element_id, text, 0), DeleteText(element_id, Len(text) + 1) >>

update_requests_swapped(element_id, text) ==
    << DeleteText(element_id, Len(text)), InsertText(element_id, text, 0) >>

\* the insertText / deleteText pair of one element
update_requests(element_id, text) ==
    << InsertText(element_id, text, 0), DeleteText(element_id, Len(text)) >>

\* the batches a call submits one after the other, until one raises: the
\* result is the document, the record of what was sent, and the error if any
RECURSIVE submit(_, _, _, _, _)
submit(p, batches, fault, accept_empty, log) ==
    IF batches = <<>> THEN [presentation |-> p, sent |-> log, error |-> ""]
    ELSE IF fault = "write"
    THEN [presentation |-> p, error |-> "TransportFailure",
          sent |-> Append(log, [requests |-> Head(batches), verdict |-> "failed"])]
    ELSE LET done == batchUpdate(p, Head(batches), accept_empty)
         IN  IF ~done.ok
             THEN [presentation |-> p, error |-> "HttpError",
                   sent |-> Append(log, [requests |-> Head(batches), verdict |-> "rejected"])]
             ELSE submit(done.presentation, Tail(batches), fault, accept_empty,
                         Append(log, [requests |-> Head(batches), verdict |-> "applied"]))

\* update_text: no fetch, one batch of the two requests
update_text_batches(slide_number, element_id, text) == << update_requests(element_id, text) >>

UpdateText(slide_number, element_id, text, fault) ==
    LET done == submit(presentation, update_text_batches(slide_number, element_id, text),
                       fault, tolerant, <<>>)
    IN  /\ call = NoCall
        /\ call' = [tool |-> "update_text", slide_number |-> slide_number,
                    element_id |-> element_id, text |-> text, fault |-> fault,
                    repeated |-> FALSE]
        /\ before' = presentation
        /\ IF fault = "auth"
           THEN /\ outcome' = Raised("AuthFailure")
                /\ sent' = <<>>
                /\ remote' = <<>>
                /\ UNCHANGED presentation
           ELSE /\ outcome' = IF done.error # "" THEN Raised(done.error)
                              ELSE Returned([success |-> TRUE])
                /\ sent' = done.sent
                /\ remote' = writes(done.sent)
                /\ presentation' = done.presentation
        /\ UNCHANGED <<tolerant, overwrites, added, token_file, sockets, handshake>>

\* an entry of the elements list: a dict that may lack 'id' or 'text'
Entry(id, text) == [has_id |-> TRUE, id |-> id, has_text |-> TRUE, text |-> text]
EntryWithoutId(text) == [has_id |-> FALSE, id |-> "", has_text |-> TRUE, text |-> text]
EntryWithoutText(id) == [has_id |-> TRUE, id |-> id, has_text |-> FALSE, text |-> <<>>]

\* the loop over elements, appending a pair for every entry with both keys
RECURSIVE replace_requests(_)
replace_requests(elements) ==
    IF elements = <<>> THEN <<>>
    ELSE (IF Head(elements).has_id /\ Head(elements).has_text
          THEN update_requests(Head(elements).id, Head(elements).text)
          ELSE <<>>)
         \o replace_requests(Tail(elements))

RECURSIVE batch_per_pair(_)
batch_per_pair(requests) ==
    IF requests = <<>> THEN <<>>
    ELSE <<SubSeq(requests, 1, 2)>> \o batch_per_pair(SubSeq(requests, 3, Len(requests)))

replace_batches_mutant(elements) == batch_per_pair(replace_requests(elements))

\* if requests: one batchUpdate with all of them
replace_batches(elements) ==
    IF replace_requests(elements) # <<>> THEN << replace_requests(elements) >> ELSE <<>>

ReplaceSlideElements(slide_number, elements, fault) ==
    LET done == submit(presentation, replace_batches(elements), fault, tolerant, <<>>)
    IN  /\ call = NoCall
        /\ call' = [tool |-> "replace_slide_elements", slide_number |-> slide_number,
                    elements |-> elements, fault |-> fault]
        /\ before' = presentation
        /\ IF fault = "auth"
           THEN /\ outcome' = Raised("AuthFailure")
                /\ sent' = <<>>
                /\ remote' = <<>>
                /\ UNCHANGED presentation
           ELSE /\ outcome' = IF done.error # "" THEN Raised(done.error)
                              ELSE Returned([success |-> TRUE, updated |-> Len(elements)])
                /\ sent' = done.sent
                /\ remote' = writes(done.sent)
                /\ presentation' = done.presentation
        /\ UNCHANGED <<tolerant, overwrites, added, token_file, sockets, handshake>>

\* the same update_text call issued a second time, right after the first
UpdateTextAgain ==
    LET done == submit(presentation,
                       update_text_batches(call.slide_number, call.element_id, call.text),
                       "none", tolerant, <<>>)
    IN  /\ call.tool = "update_text" /\ call.fault = "none" /\ ~call.repeated
        /\ call' = [call EXCEPT !.repeated = TRUE]
        /\ before' = presentation
        /\ outcome' = IF done.error # "" THEN Raised(done.error)
                      ELSE Returned([success |-> TRUE])
        /\ sent' = done.sent
        /\ remote' = writes(done.sent)
        /\ presentation' = done.presentation
        /\ UNCHANGED <<tolerant, overwrites, added, token_file, sockets, handshake>>

\* the call is over: the result has gone to the caller (calls are synchronous,
\* one at a time, and leave nothing behind in the process)
Return ==
    /\ call # NoCall
    /\ call' = NoCall
    /\ outcome' = NoOutcome
    /\ before' = presentation
    /\ sent' = <<>>
    /\ remote' = <<>>
    /\ UNCHANGED <<presentation, tolerant, overwrites, added, token_file, sockets, handshake>>

-----------------------------------------------------------------------------
(* get_presentation_overview: the overview summarizer *)

\* f"Slide {idx}"
default_summary(idx) == <<"S", "l", "i", "d", "e", " ", ToString(idx)>>

truncate_mutant(text) ==
    Prefix(text, SummaryLimit) \o (IF Len(text) >= SummaryLimit THEN Ellipsis ELSE <<>>)

\* text[:50] + ('...' if len(text) > 50 else '')
truncate(text) ==
    Prefix(text, SummaryLimit) \o (IF Len(text) > SummaryLimit THEN Ellipsis ELSE <<>>)

\* the inner loop: the first text run whose stripped content is not empty
\* sets the summary and ends the loop
RECURSIVE scan_text_elements(_, _)
scan_text_elements(text_elements, summary) ==
    IF text_elements = <<>> THEN summary
    ELSE LET text_elem == Head(text_elements)
             text == strip(text_elem.content)
         IN  IF text_elem.kind = "textRun" /\ text # <<>>
             THEN truncate(text)
             ELSE scan_text_elements(Tail(text_elements), summary)

\* the outer loop: the first element that is a shape with a 'text' key is
\* scanned and ends the loop, whatever the scan found
RECURSIVE scan_elements(_, _)
scan_elements(elements, summary) ==
    IF elements = <<>> THEN summary
    ELSE LET elem == Head(elements)
         IN  IF elem.kind = "shape" /\ elem.text.present
             THEN scan_text_elements(elem.text.textElements, summary)
             ELSE scan_elements(Tail(elements), summary)

slide_summary(idx, slide) ==
    [num |-> idx,
     summary |-> scan_elements(slide.pageElements, default_summary(idx)),
     elements |-> Len(slide.pageElements)]

get_presentation_overview(p, fault) ==
    IF fault = "auth" THEN Raised("AuthFailure")
    ELSE IF fault = "read" THEN Raised("TransportFailure")
    ELSE LET slides_summary == [idx \in 1..Len(slides_of(p)) |->
                                    slide_summary(idx, slides_of(p)[idx])]
         IN  Returned([id |-> p.presentationId, title |-> p.title,
                       slide_count |-> Len(slides_summary), slides |-> slides_summary])

GetPresentationOverview(fault) ==
    /\ call = NoCall
    /\ call' = [tool |-> "get_presentation_overview", fault |-> fault]
    /\ outcome' = get_presentation_overview(presentation, fault)
    /\ before' = presentation
    /\ sent' = <<>>
    /\ remote' = fetches(fault)
    /\ UNCHANGED <<presentation, tolerant, overwrites, added, token_file, sockets, handshake>>

-----------------------------------------------------------------------------
(* Generated slides to summarize: top-level elements and their text        *)
(* elements, at most MaxItems of both together, with run contents that are *)
(* blank, short with blanks around, and of 50 and 51 characters when       *)
(* stripped.                                                               *)

Letters(n) == [i \in 1..n |-> IF i % 2 = 1 THEN "a" ELSE "b"]

RunContents ==
    { <<"\n">>,
      <<" ", "h", "i", "\n">>,
      Letters(SummaryLimit) \o <<"\n">>,
      <<" ">> \o Letters(SummaryLimit + 1) }

TextElementChoices == { TextRun(c) : c \in RunContents } \cup {ParagraphMarker(FALSE)}

RECURSIVE TextElementSeqs(_)
TextElementSeqs(m) ==
    IF m = 0 THEN {<<>>}
    ELSE { <<te>> \o rest : te \in TextElementChoices, rest \in TextElementSeqs(m - 1) }

\* the elements with m text elements
SummaryElements(id, m) ==
    IF m = 0
    THEN { Shape(id, "RECTANGLE", NoText, NoPlaceholder),
           Shape(id, "TEXT_BOX", Text(<<>>), NoPlaceholder),
           Image(id),
           ElementGroup(id, <<Shape(ChildId(id, 1), "TEXT_BOX",
                                     Text(<<TextRun(<<"g">>)>>), NoPlaceholder)>>) }
    ELSE { Shape(id, "TEXT_BOX", Text(tes), NoPlaceholder) : tes \in TextElementSeqs(m) }

\* the element sequences of n items in all, the first element being child i
RECURSIVE SummarySlides(_, _, _)
SummarySlides(n, pre, i) ==
    IF n = 0 THEN {<<>>}
    ELSE UNION { { <<e>> \o rest : e \in SummaryElements(ChildId(pre, i), m),
                                   rest \in SummarySlides(n - 1 - m, pre, i + 1) }
                 : m \in 0..(n - 1) }

\* at most `most` slides, one of them generated, the others empty
OverviewDecks(most) ==
    UNION { { Presentation([idx \in 1..k |->
                              Slide("p" \o ToString(idx), IF idx = j THEN f ELSE <<>>)])
              : f \in UNION { SummarySlides(n, "p" \o ToString(j), 1) : n \in 0..MaxItems } }
            : k \in 1..most, j \in 1..most }

InitOverview ==
    /\ presentation \in OverviewDecks(MaxSlides)
    /\ tolerant = TRUE
    /\ before = presentation
    /\ call = NoCall
    /\ outcome = NoOutcome
    /\ sent = <<>>
    /\ remote = <<>>
    /\ overwrites = FALSE
    /\ added = <<>>
    /\ token_file = "valid"
    /\ sockets = <<>>
    /\ handshake = Idle

NextOverview == GetPresentationOverview("none")

SpecOverview == InitOverview /\ [][NextOverview]_vars

-----------------------------------------------------------------------------
(* Flattened slides *)

GotSlide == call.tool = "get_slide" /\ outcome.status = "ok"

FetchedTree == before.slides[call.slide_number].pageElements

\* the positions of the elements that are not groups and that, taken alone,
\* yield a record
LeafPaths ==
    { p \in PathsOf(FetchedTree) :
        /\ NodeAt(FetchedTree, p).kind # "elementGroup"
        /\ Truthy(process_element(NodeAt(FetchedTree, p))) }

Rank(p) == 1 + Cardinality({ q \in LeafPaths : DocBefore(q, p) })

\* C2: the element list returned by get_slide is the pre-order flattening of
\* the slide's pageElements tree: no group has a record of its own, every
\* record-yielding leaf at any depth has exactly its own record, and the
\* records are in the document order of their leaves.
C2_PreorderFlattening ==
    GotSlide =>
        LET elements == outcome.value.elements
        IN  /\ Len(elements) = Cardinality(LeafPaths)
            /\ \A p \in LeafPaths :
                  elements[Rank(p)] = process_element(NodeAt(FetchedTree, p)).items[1]
            /\ \A p \in PathsOf(FetchedTree) :
                  NodeAt(FetchedTree, p).kind = "elementGroup" =>
                      \A i \in 1..Len(elements) :
                          elements[i].id # NodeAt(FetchedTree, p).objectId

\* a slide with a leaf inside a group inside a group, followed by a leaf
\* outside, both emitted
C2_Witness ==
    /\ GotSlide
    /\ \E p, q \in LeafPaths : Len(p) >= 3 /\ Len(q) < Len(p) /\ DocBefore(p, q)

\* C3: a shape at any depth has exactly one record, of type text, when it is
\* a TEXT_BOX or has a text body or has a placeholder (empty text included),
\* and no record otherwise.
C3_TextShapeRecords ==
    GotSlide =>
        LET elements == outcome.value.elements
        IN  \A p \in PathsOf(FetchedTree) :
              LET node == NodeAt(FetchedTree, p)
                  records == { i \in 1..Len(elements) : elements[i].id = node.objectId }
              IN  node.kind = "shape" =>
                    IF \/ node.shapeType = "TEXT_BOX"
                       \/ node.text.present
                       \/ node.placeholder.present
                    THEN /\ Cardinality(records) = 1
                         /\ \A i \in records : elements[i].type = "text"
                    ELSE records = {}

\* a grouped shape that is no text box and has no placeholder, whose text
\* body is present and empty, with its record of empty text
C3_Witness ==
    /\ GotSlide
    /\ \E p \in PathsOf(FetchedTree) :
          LET node == NodeAt(FetchedTree, p)
          IN  /\ Len(p) >= 2
              /\ node.kind = "shape" /\ node.shapeType = "RECTANGLE"
              /\ node.text.present /\ ~node.placeholder.present
              /\ \E i \in 1..Len(outcome.value.elements) :
                    /\ outcome.value.elements[i].id = node.objectId
                    /\ outcome.value.elements[i].text = <<>>

\* the records of the returned list that carry the object id of a node
RecordsOf(node) ==
    { i \in 1..Len(outcome.value.elements) : outcome.value.elements[i].id = node.objectId }

TextShapePaths ==
    { p \in PathsOf(FetchedTree) :
        LET node == NodeAt(FetchedTree, p)
        IN  node.kind = "shape" /\ RecordsOf(node) # {} }

PlaceholderType(node) == IF node.placeholder.present THEN node.placeholder.type ELSE <<>>

\* C11: a text shape whose placeholder type contains "BODY" or "SUBTITLE" has
\* role body; one whose placeholder type contains "TITLE" (CENTERED_TITLE for
\* one) has role title; with no such placeholder a TEXT_BOX has role textbox
\* and any other text shape has role text.
C11_RoleInference ==
    GotSlide =>
        \A p \in TextShapePaths :
            LET node == NodeAt(FetchedTree, p)
                type == PlaceholderType(node)
                body == Contains(type, BODY) \/ Contains(type, SUBTITLE)
                title == Contains(type, TITLE)
            IN  \A i \in RecordsOf(node) :
                    LET role == outcome.value.elements[i].role
                    IN  /\ body => role = "body"
                        /\ (title /\ ~body) => role = "title"
                        /\ (~title /\ ~body /\ node.shapeType = "TEXT_BOX") => role = "textbox"
                        /\ (~title /\ ~body /\ node.shapeType # "TEXT_BOX") => role = "text"

BulletedMarkers(tes) ==
    { i \in 1..Len(tes) : tes[i].kind = "paragraphMarker" /\ tes[i].bullet }

\* C12: the format of an emitted text record is bullets if and only if at
\* least one paragraph marker of the shape's text elements carries a bullet,
\* wherever it stands and however many there are, and plain otherwise.
C12_BulletsFormat ==
    GotSlide =>
        \A p \in TextShapePaths :
            LET node == NodeAt(FetchedTree, p)
                tes == IF node.text.present THEN node.text.textElements ELSE <<>>
            IN  \A i \in RecordsOf(node) :
                    /\ outcome.value.elements[i].format \in {"bullets", "plain"}
                    /\ outcome.value.elements[i].format = "bullets"
                          <=> Cardinality(BulletedMarkers(tes)) >= 1

\* a record of format bullets for a shape whose only bulleted paragraph comes
\* after a paragraph without bullet
C12_Witness ==
    /\ GotSlide
    /\ \E p \in TextShapePaths :
          LET node == NodeAt(FetchedTree, p)
              tes == node.text.textElements
          IN  /\ node.text.present
              /\ Cardinality(BulletedMarkers(tes)) = 1
              /\ \E j \in 1..Len(tes) :
                    /\ tes[j].kind = "paragraphMarker" /\ ~tes[j].bullet
                    /\ \A b \in BulletedMarkers(tes) : j < b
              /\ \A i \in RecordsOf(node) : outcome.value.elements[i].format = "bullets"

-----------------------------------------------------------------------------
(* Slide summaries *)

GotOverview == call.tool = "get_presentation_overview" /\ outcome.status = "ok"

NonEmptyRun(te) == te.kind = "textRun" /\ strip(te.content) # <<>>

\* the positions <<i, j>> of the non-empty text runs of the top-level shapes
\* of a slide: element i, text element j
RunPositions(slide) ==
    { <<i, j>> \in (1..Len(slide.pageElements)) \X (1..MaxItems) :
        LET elem == slide.pageElements[i]
        IN  /\ elem.kind = "shape" /\ elem.text.present
            /\ j <= Len(elem.text.textElements)
            /\ NonEmptyRun(elem.text.textElements[j]) }

FirstPosition(positions) ==
    CHOOSE p \in positions :
        \A q \in positions : p[1] < q[1] \/ (p[1] = q[1] /\ p[2] <= q[2])

RunText(slide, p) == strip(slide.pageElements[p[1]].text.textElements[p[2]].content)

\* C9: the summary of every slide comes from the first non-empty trimmed text
\* run of its top-level shapes, in element order and run order; the
\* placeholder "Slide {num}" is returned only when there is no such run.
C9_SummaryFromFirstNonEmptyRun ==
    GotOverview =>
        \A idx \in 1..Len(before.slides) :
            LET slide == before.slides[idx]
                summary == outcome.value.slides[idx].summary
                positions == RunPositions(slide)
            IN  IF positions = {}
                THEN summary = default_summary(idx)
                ELSE LET text == RunText(slide, FirstPosition(positions))
                     IN  Prefix(summary, SummaryLimit) = Prefix(text, SummaryLimit)

\* the positions of the non-empty text runs of the first top-level shape that
\* has a text body: the run the summarizer takes is the first of them
ScannedPositions(slide) ==
    { p \in RunPositions(slide) :
        \A i \in 1..(p[1] - 1) :
            ~(slide.pageElements[i].kind = "shape" /\ slide.pageElements[i].text.present) }

\* C10: a chosen run of more than 50 characters (trimmed) is returned as its
\* first 50 characters followed by "...", a shorter one unchanged, so that a
\* text summary is never longer than 53 characters.
C10_SummaryTruncation ==
    GotOverview =>
        \A idx \in 1..Len(before.slides) :
            LET slide == before.slides[idx]
                summary == outcome.value.slides[idx].summary
                positions == ScannedPositions(slide)
            IN  positions # {} =>
                  LET text == RunText(slide, FirstPosition(positions))
                  IN  /\ Len(text) > SummaryLimit =>
                            summary = SubSeq(text, 1, SummaryLimit) \o <<".", ".", ".">>
                      /\ Len(text) <= SummaryLimit => summary = text
                      /\ Len(summary) <= SummaryLimit + 3

\* a slide whose chosen run has 51 characters when trimmed, summarized in 53
C10_Witness ==
    /\ GotOverview
    /\ \E idx \in 1..Len(before.slides) :
          /\ ScannedPositions(before.slides[idx]) # {}
          /\ Len(RunText(before.slides[idx],
                         FirstPosition(ScannedPositions(before.slides[idx]))))
                = SummaryLimit + 1
          /\ Len(outcome.value.slides[idx].summary) = SummaryLimit + 3

-----------------------------------------------------------------------------
(* add_element and duplicate_slide: the structural mutation planner.       *)
(* Page magnitudes are multiples of 10, so that the tenths the code takes  *)
(* of them are whole numbers.                                              *)

StructureFaults == {"none", "auth", "read", "write"}

\* a key of the element dict: absent (or None), or given with a value
Absent == [present |-> FALSE, value |-> ""]
Given(value) == [present |-> TRUE, value |-> value]
AbsentCount == [present |-> FALSE, value |-> 0]

Element(type, url, position, rows, cols) ==
    [type |-> type, url |-> url, position |-> position, rows |-> rows, cols |-> cols]

\* str(element.get("type")) in the f-string
type_name(element) == IF element.type.present THEN element.type.value ELSE "None"

\* bool(element.get('url'))
has_url(element) == element.url.present /\ element.url.value # ""

\* x * 0.n
Tenths(x, n) == (x * n) \div 10

\* the box of the new element: size, translation and the unit they are sent in
box_of(page_size, element) ==
    LET page_width == IF page_size.present THEN page_size.width.magnitude
                      ELSE DefaultPageWidth
        page_height == IF page_size.present THEN page_size.height.magnitude
                       ELSE DefaultPageHeight
        position == IF element.position.present THEN element.position.value ELSE "center"
        size_width == Tenths(page_width, SizeWidthTenths)
        size_height == Tenths(page_height, SizeHeightTenths)
    IN  [width |-> size_width, height |-> size_height, unit |-> "PT",
         translateX |-> (page_width - size_width) \div 2,
         translateY |-> IF position = "top" THEN Tenths(page_height, TopTenths)
                        ELSE IF position = "bottom" THEN Tenths(page_height, BottomTenths)
                        ELSE (page_height - size_height) \div 2]

elem_id_of_mutant(slide_number, element) == "element_" \o ToString(slide_number)

\* f'element_{slide_number}_{element.get("type")}'
elem_id_of(slide_number, element) ==
    "element_" \o ToString(slide_number) \o "_" \o type_name(element)

CreateImage(id, url, page_id, box) ==
    [op |-> "createImage", objectId |-> id, url |-> url, pageObjectId |-> page_id, box |-> box]
CreateTable(id, page_id, box, rows, columns) ==
    [op |-> "createTable", objectId |-> id, pageObjectId |-> page_id, box |-> box,
     rows |-> rows, columns |-> columns]
DuplicateObject(id) == [op |-> "duplicateObject", objectId |-> id]
UpdateSlidesPosition(id, index) ==
    [op |-> "updateSlidesPosition", objectId |-> id, insertionIndex |-> index]

add_requests_mutant(element, elem_id, page_id, box) ==
    IF type_name(element) = "image"
    THEN << CreateImage(elem_id, element.url.value, page_id, box) >>
    ELSE IF type_name(element) = "table"
    THEN << CreateTable(elem_id, page_id, box, DefaultRows, DefaultCols) >>
    ELSE <<>>

\* the requests list: one createImage, one createTable, or nothing
add_requests(element, elem_id, page_id, box) ==
    IF element.type.present /\ element.type.value = "image" /\ has_url(element)
    THEN << CreateImage(elem_id, element.url.value, page_id, box) >>
    ELSE IF element.type.present /\ element.type.value = "table"
    THEN << CreateTable(elem_id, page_id, box,
                        IF element.rows.present THEN element.rows.value ELSE DefaultRows,
                        IF element.cols.present THEN element.cols.value ELSE DefaultCols) >>
    ELSE <<>>

Unsupported == "ValueError: Unsupported element type or missing parameters"

\* what a call of a structural tool leaves: its outcome, the document, the
\* batches and remote calls it issued, and the ids it synthesized
Done(result, p, log, calls, ids) ==
    [outcome |-> result, presentation |-> p, sent |-> log, remote |-> calls,
     synthesized |-> ids]

add_element(p, slide_number, element, fault) ==
    IF fault = "auth" THEN Done(Raised("AuthFailure"), p, <<>>, <<>>, <<>>)
    ELSE IF fault = "read" THEN Done(Raised("TransportFailure"), p, <<>>, fetches(fault), <<>>)
    ELSE IF out_of_range(slide_number, slides_of(p))
    THEN Done(Raised("ValueError"), p, <<>>, fetches(fault), <<>>)
    ELSE LET page_id == slides_of(p)[slide_number].objectId
             elem_id == elem_id_of(slide_number, element)
             requests == add_requests(element, elem_id, page_id, box_of(p.pageSize, element))
             ids == <<[slide_number |-> slide_number, type |-> type_name(element),
                       id |-> elem_id]>>
         IN  IF requests # <<>>
             THEN LET done == submit(p, <<requests>>, fault, tolerant, <<>>)
                  IN  Done(IF done.error # "" THEN Raised(done.error)
                           ELSE Returned([success |-> TRUE, element_id |-> elem_id]),
                           done.presentation, done.sent,
                           fetches(fault) \o writes(done.sent), ids)
             ELSE Done(Raised(Unsupported), p, <<>>, fetches(fault), ids)

AddElement(slide_number, element, fault) ==
    LET done == add_element(presentation, slide_number, element, fault)
    IN  /\ call = NoCall
        /\ Len(added) < MaxAdded
        /\ call' = [tool |-> "add_element", slide_number |-> slide_number,
                    element |-> element, fault |-> fault]
        /\ before' = presentation
        /\ outcome' = done.outcome
        /\ sent' = done.sent
        /\ remote' = done.remote
        /\ presentation' = done.presentation
        /\ added' = added \o done.synthesized
        /\ UNCHANGED <<tolerant, overwrites, token_file, sockets, handshake>>

\* min(a, b)
min(a, b) == IF a < b THEN a ELSE b

duplicate_requests_mutant(source_slide_id, insertion_index) ==
    << DuplicateObject(source_slide_id),
       UpdateSlidesPosition(source_slide_id, insertion_index) >>

\* the requests list: one duplicateObject; the insertion index is not used
duplicate_requests(source_slide_id, insertion_index) ==
    << DuplicateObject(source_slide_id) >>

duplicate_slide(p, source_slide, insert_at, fault) ==
    IF fault = "auth" THEN Done(Raised("AuthFailure"), p, <<>>, <<>>, <<>>)
    ELSE IF fault = "read" THEN Done(Raised("TransportFailure"), p, <<>>, fetches(fault), <<>>)
    ELSE IF out_of_range(source_slide, slides_of(p))
    THEN Done(Raised("ValueError"), p, <<>>, fetches(fault), <<>>)
    ELSE LET source_slide_id == slides_of(p)[source_slide].objectId
             insertion_index == min(insert_at - 1, Len(slides_of(p)))
             requests == duplicate_requests(source_slide_id, insertion_index)
             done == submit(p, <<requests>>, fault, tolerant, <<>>)
         IN  Done(IF done.error # "" THEN Raised(done.error)
                  ELSE Returned([success |-> TRUE, new_slide_number |-> source_slide + 1]),
                  done.presentation, done.sent, fetches(fault) \o writes(done.sent), <<>>)

DuplicateSlide(source_slide, insert_at, fault) ==
    LET done == duplicate_slide(presentation, source_slide, insert_at, fault)
    IN  /\ call = NoCall
        /\ Len(presentation.slides) <= MaxSlides
        /\ call' = [tool |-> "duplicate_slide", slide_number |-> source_slide,
                    insert_at |-> insert_at, fault |-> fault]
        /\ before' = presentation
        /\ outcome' = done.outcome
        /\ sent' = done.sent
        /\ remote' = done.remote
        /\ presentation' = done.presentation
        /\ UNCHANGED <<tolerant, overwrites, added, token_file, sockets, handshake>>

\* presentations of empty slides p1, p2, ...
StructureDecks(most) ==
    { Presentation([n \in 1..k |-> Slide("p" \o ToString(n), <<>>)]) : k \in 1..most }

AnImage == Element(Given("image"), Given("u"), Absent, AbsentCount, AbsentCount)
ATable == Element(Given("table"), Absent, Absent, AbsentCount, AbsentCount)

InitStructure ==
    /\ presentation \in StructureDecks(MaxSlides)
    /\ tolerant = TRUE
    /\ before = presentation
    /\ call = NoCall
    /\ outcome = NoOutcome
    /\ sent = <<>>
    /\ remote = <<>>
    /\ overwrites \in BOOLEAN
    /\ added = <<>>
    /\ token_file = "valid"
    /\ sockets = <<>>
    /\ handshake = Idle

NextStructure ==
    \/ \E n \in 1..Len(presentation.slides), element \in {AnImage, ATable} :
          AddElement(n, element, "none")
    \/ \E s \in 0..(Len(presentation.slides) + 1), insert_at \in 1..(MaxSlides + 2) :
          DuplicateSlide(s, insert_at, "none")
    \/ Return

SpecStructure == InitStructure /\ [][NextStructure]_vars

\* the page sizes of at most `most` tens a side, in points and in EMU, the
\* size of a widescreen page in EMU, and no page size at all
PageSizes(most) ==
    { PageSize(10 * w, 10 * h, unit) : w \in 1..most, h \in 1..most, unit \in {"PT", "EMU"} }
    \cup { PageSize(9144000, 5143500, "EMU"), NoPageSize }

\* element dicts: every type, url and position, given or not
ElementChoices ==
    { Element(type, url, position, AbsentCount, AbsentCount) :
        type \in {Given("image"), Given("table"), Given("chart"), Absent},
        url \in {Absent, Given(""), Given("u")},
        position \in {Absent, Given("top"), Given("center"), Given("bottom"), Given("left")} }
    \cup { Element(Given("table"), Absent, Absent, [AbsentCount EXCEPT !.value = 3],
                   [present |-> TRUE, value |-> 1]) }

InitAddElement ==
    /\ presentation \in { [Presentation(<<Slide("p1", <<>>)>>) EXCEPT !.pageSize = size] :
                              size \in PageSizes(MaxPage) }
    /\ tolerant = TRUE
    /\ before = presentation
    /\ call = NoCall
    /\ outcome = NoOutcome
    /\ sent = <<>>
    /\ remote = <<>>
    /\ overwrites = FALSE
    /\ added = <<>>
    /\ token_file = "valid"
    /\ sockets = <<>>
    /\ handshake = Idle

NextAddElement ==
    \/ \E element \in ElementChoices : AddElement(1, element, "none")
    \/ Return

SpecAddElement == InitAddElement /\ [][NextAddElement]_vars

-----------------------------------------------------------------------------
(* The presentations the mutation tools are run on: text boxes whose text  *)
(* is L one-character runs "x", "y", ...; new texts are "a", "ab", ...     *)

OldRuns(L) == [i \in 1..L |-> TextRun(<<IF i % 2 = 1 THEN "x" ELSE "y">>)]

TextBox(id, L) ==
    Shape(id, "TEXT_BOX", IF L = 0 THEN NoText ELSE Text(OldRuns(L)), NoPlaceholder)

SlideId(n) == "p" \o ToString(n)

\* k slides, one text box on each; the box of the first slide starts with
\* any of the old texts, the others with one character
MainDecks ==
    UNION { { Presentation([n \in 1..k |->
                  Slide(SlideId(n), <<TextBox(ChildId(SlideId(n), 1),
                                              IF n = 1 THEN L ELSE 1)>>)])
              : L \in 0..MaxLen }
            : k \in 0..MaxSlides }

NewTexts == { Letters(L) : L \in 0..MaxLen }

\* the elements the calls name: the text box of the first slide, when there
\* is one, and an element the presentation does not have
TargetIds == {"p1_1", "missing"}

\* every slide number from one below to one above the valid ones
SlideNumbers == 0..(Len(presentation.slides) + 1)

\* for the tools that write text: below, first, above
WriteSlideNumbers == {0, 1, Len(presentation.slides) + 1}

Entries(ids, texts) ==
    { Entry(id, text) : id \in ids, text \in texts }
    \cup {EntryWithoutId(Letters(1)), EntryWithoutText("missing")}

RECURSIVE EntryLists(_, _)
EntryLists(entries, n) ==
    IF n = 0 THEN {<<>>}
    ELSE EntryLists(entries, n - 1)
         \cup { Append(l, e) : l \in { m \in EntryLists(entries, n - 1) : Len(m) = n - 1 },
                               e \in entries }

Init ==
    /\ presentation \in MainDecks
    /\ tolerant \in BOOLEAN
    /\ before = presentation
    /\ call = NoCall
    /\ outcome = NoOutcome
    /\ sent = <<>>
    /\ remote = <<>>
    /\ overwrites = FALSE
    /\ added = <<>>
    /\ token_file = "valid"
    /\ sockets = <<>>
    /\ handshake = Idle

Next ==
    \/ \E n \in SlideNumbers, fault \in ReadFaults : GetSlide(n, fault)
    \/ \E fault \in ReadFaults : GetPresentationOverview(fault)
    \/ \E n \in WriteSlideNumbers, id \in TargetIds, text \in NewTexts,
          fault \in WriteFaults : UpdateText(n, id, text, fault)
    \/ UpdateTextAgain
    \/ \E n \in WriteSlideNumbers, elements \in EntryLists(Entries(TargetIds, NewTexts), 1),
          fault \in WriteFaults : ReplaceSlideElements(n, elements, fault)
    \/ Return

Spec == Init /\ [][Next]_vars

\* one slide with two text boxes, for the lists of replace_slide_elements
ReplaceDecks ==
    { Presentation(<<Slide("p1", <<TextBox("p1_1", L1), TextBox("p1_2", L2)>>)>>)
      : L1, L2 \in 0..MaxLen }

ReplaceIds == {"p1_1", "p1_2", "missing"}

ReplaceTexts == {<<>>, Letters(MaxLen)}

InitReplace ==
    /\ presentation \in ReplaceDecks
    /\ tolerant \in BOOLEAN
    /\ before = presentation
    /\ call = NoCall
    /\ outcome = NoOutcome
    /\ sent = <<>>
    /\ remote = <<>>
    /\ overwrites = FALSE
    /\ added = <<>>
    /\ token_file = "valid"
    /\ sockets = <<>>
    /\ handshake = Idle

NextReplace ==
    \/ \E elements \in EntryLists(Entries(ReplaceIds, ReplaceTexts), MaxPairs),
          fault \in {"none", "write"} : ReplaceSlideElements(1, elements, fault)
    \/ \E id \in ReplaceIds, text \in ReplaceTexts : UpdateText(1, id, text, "none")
    \/ Return

SpecReplace == InitReplace /\ [][NextReplace]_vars

-----------------------------------------------------------------------------
(* The six functions of slides_tools, each with every fault.  One creation *)
(* and one duplication at most, so that the presentations stay few.        *)

AChart == Element(Given("chart"), Absent, Given("center"), AbsentCount, AbsentCount)

InitCalls ==
    /\ presentation \in MainDecks
    /\ tolerant \in BOOLEAN
    /\ before = presentation
    /\ call = NoCall
    /\ outcome = NoOutcome
    /\ sent = <<>>
    /\ remote = <<>>
    /\ overwrites = FALSE
    /\ added = <<>>
    /\ token_file = "valid"
    /\ sockets = <<>>
    /\ handshake = Idle

NextCalls ==
    \/ \E n \in SlideNumbers, fault \in ReadFaults : GetSlide(n, fault)
    \/ \E fault \in ReadFaults : GetPresentationOverview(fault)
    \/ \E id \in TargetIds, fault \in WriteFaults : UpdateText(1, id, Letters(1), fault)
    \/ \E elements \in EntryLists(Entries({"p1_1"}, {Letters(1)}), MaxPairs),
          fault \in WriteFaults : ReplaceSlideElements(1, elements, fault)
    \/ /\ added = <<>>
       /\ \E n \in WriteSlideNumbers, element \in {AnImage, ATable, AChart},
             fault \in StructureFaults : AddElement(n, element, fault)
    \/ /\ Len(presentation.slides) < MaxSlides
       /\ \E s \in SlideNumbers, insert_at \in {1, MaxSlides + 2},
             fault \in StructureFaults : DuplicateSlide(s, insert_at, fault)
    \/ Return

SpecCalls == InitCalls /\ [][NextCalls]_vars

-----------------------------------------------------------------------------
(* server.py: the registered tools.  Each one calls a function of          *)
(* slides_tools by name with positional arguments; the call raises when    *)
(* the module has no such function or the function takes another number of *)
(* arguments.                                                              *)

\* the functions slides_tools defines, with the number of their parameters
Operations ==
    [get_presentation_overview |-> 1, get_slide |-> 2, update_text |-> 4,
     replace_slide_elements |-> 3, add_element |-> 3, duplicate_slide |-> 3]

\* the registered tools: the function each one calls and the number of
\* arguments it passes
Registered ==
    [get_presentation_overview |-> [target |-> "get_presentation_overview", passed |-> 1],
     get_slide |-> [target |-> "get_slide", passed |-> 2],
     update_text |-> [target |-> "update_text", passed |-> 6],
     replace_slide_elements |-> [target |-> "replace_slide_elements", passed |-> 3],
     update_bullets |-> [target |-> "update_bullets", passed |-> 4],
     add_element |-> [target |-> "add_element", passed |-> 3],
     duplicate_slide |-> [target |-> "duplicate_slide", passed |-> 3]]

\* the error of slides_tools.<target>(<passed arguments>), "" when the call
\* enters the function
dispatch_error(tool) ==
    IF Registered[tool].target \notin DOMAIN Operations THEN "AttributeError"
    ELSE IF Registered[tool].passed # Operations[Registered[tool].target] THEN "TypeError"
    ELSE ""

\* a call that raises before it enters slides_tools
Refused(record, error) ==
    /\ call = NoCall
    /\ call' = record
    /\ outcome' = Raised(error)
    /\ before' = presentation
    /\ sent' = <<>>
    /\ remote' = <<>>
    /\ UNCHANGED <<presentation, tolerant, overwrites, added, token_file, sockets, handshake>>

ServerGetPresentationOverview(fault) ==
    IF dispatch_error("get_presentation_overview") # ""
    THEN Refused([tool |-> "get_presentation_overview", fault |-> fault],
                 dispatch_error("get_presentation_overview"))
    ELSE GetPresentationOverview(fault)

ServerGetSlide(slide_number, fault) ==
    IF dispatch_error("get_slide") # ""
    THEN Refused([tool |-> "get_slide", slide_number |-> slide_number, fault |-> fault],
                 dispatch_error("get_slide"))
    ELSE GetSlide(slide_number, fault)

\* text_style and paragraph_style are passed on, None when not given
ServerUpdateText(slide_number, element_id, text, fault) ==
    IF dispatch_error("update_text") # ""
    THEN Refused([tool |-> "update_text", slide_number |-> slide_number,
                  element_id |-> element_id, text |-> text, fault |-> fault,
                  repeated |-> FALSE],
                 dispatch_error("update_text"))
    ELSE UpdateText(slide_number, element_id, text, fault)

ServerReplaceSlideElements(slide_number, elements, fault) ==
    IF dispatch_error("replace_slide_elements") # ""
    THEN Refused([tool |-> "replace_slide_elements", slide_number |-> slide_number,
                  elements |-> elements, fault |-> fault],
                 dispatch_error("replace_slide_elements"))
    ELSE ReplaceSlideElements(slide_number, elements, fault)

ServerUpdateBullets(element_id, fault) ==
    Refused([tool |-> "update_bullets", element_id |-> element_id, fault |-> fault],
            dispatch_error("update_bullets"))

\* the element dict the tool builds from its arguments
server_element(element_type, content, position) ==
    Element(Given(element_type),
            IF element_type = "image" /\ content # "" THEN Given(content) ELSE Absent,
            Given(position), AbsentCount, AbsentCount)

ServerAddElement(slide_number, element_type, content, position, fault) ==
    IF dispatch_error("add_element") # ""
    THEN Refused([tool |-> "add_element", slide_number |-> slide_number,
                  element |-> server_element(element_type, content, position),
                  fault |-> fault],
                 dispatch_error("add_element"))
    ELSE AddElement(slide_number, server_element(element_type, content, position), fault)

\* insert_at defaults to the place after the source
ServerDuplicateSlide(source_slide, insert_at, fault) ==
    LET place == IF insert_at.present THEN insert_at.value ELSE source_slide + 1
    IN  IF dispatch_error("duplicate_slide") # ""
        THEN Refused([tool |-> "duplicate_slide", slide_number |-> source_slide,
                      insert_at |-> place, fault |-> fault],
                     dispatch_error("duplicate_slide"))
        ELSE DuplicateSlide(source_slide, place, fault)

InitServer ==
    /\ presentation \in MainDecks
    /\ tolerant \in BOOLEAN
    /\ before = presentation
    /\ call = NoCall
    /\ outcome = NoOutcome
    /\ sent = <<>>
    /\ remote = <<>>
    /\ overwrites = FALSE
    /\ added = <<>>
    /\ token_file = "valid"
    /\ sockets = <<>>
    /\ handshake = Idle

\* one creation and one duplication at most, so that the presentations stay few
NextServer ==
    \/ \E fault \in ReadFaults : ServerGetPresentationOverview(fault)
    \/ \E n \in SlideNumbers : ServerGetSlide(n, "none")
    \/ \E n \in WriteSlideNumbers, id \in TargetIds, text \in NewTexts,
          fault \in WriteFaults : ServerUpdateText(n, id, text, fault)
    \/ \E elements \in EntryLists(Entries(TargetIds, {Letters(1)}), 1) :
          ServerReplaceSlideElements(1, elements, "none")
    \/ \E id \in TargetIds, fault \in WriteFaults : ServerUpdateBullets(id, fault)
    \/ /\ added = <<>>
       /\ \E type \in {"image", "table", "chart"}, content \in {"", "u"} :
             ServerAddElement(1, type, content, "center", "none")
    \/ /\ Len(presentation.slides) < MaxSlides
       /\ \E insert_at \in {AbsentCount, [present |-> TRUE, value |-> 1]} :
             ServerDuplicateSlide(1, insert_at, "none")
    \/ Return

SpecServer == InitServer /\ [][NextServer]_vars

-----------------------------------------------------------------------------
(* Slide-number validation *)

SlideTools ==
    {"get_slide", "update_text", "replace_slide_elements", "add_element", "duplicate_slide"}

\* C1: a call of a tool that takes a slide number, with a number below 1 or
\* above the slide count of the presentation, fails with the out-of-range
\* error and submits no batch.
C1_OutOfRangeRejected ==
    ( /\ call.tool \in SlideTools
      /\ call.fault = "none"
      /\ (call.slide_number < 1 \/ call.slide_number > Len(before.slides)) )
    => /\ outcome.status = "raised"
       /\ outcome.error = "ValueError"
       /\ sent = <<>>

-----------------------------------------------------------------------------
(* Text replacement *)

UpdatedText == call.tool = "update_text" /\ outcome.status = "ok"

\* C4: after an accepted update_text the text content of the element is the
\* new text exactly, whatever the length of the content it had.
C4_ContentIsNewText ==
    UpdatedText => ContentOf(presentation, call.element_id) = call.text

\* an accepted update whose new text is shorter than the content it replaces
C4_Witness ==
    /\ UpdatedText
    /\ call.text # <<>>
    /\ Len(ContentOf(before, call.element_id)) > Len(call.text)
    /\ ContentOf(presentation, call.element_id) = call.text

PlannedUpdate ==
    /\ call.tool = "update_text"
    /\ call.fault # "auth"
    /\ HasShape(before, call.element_id)

\* the requests of a batch that change something on a body that has `length`
\* characters when the delete runs: the inserts, and the deletes whose range
\* [index, length) is not empty
EffectiveOps(requests, length) ==
    Cardinality({ i \in 1..Len(requests) :
                    requests[i].op = "insertText" \/ requests[i].index < length })

\* C5 as stated: 2 operations when len(t) < L, and 1 effective operation (the
\* delete range being empty) when len(t) >= L.
C5_OperationCount ==
    PlannedUpdate =>
        LET L == Len(ContentOf(before, call.element_id))
            requests == sent[1].requests
        IN  /\ Len(call.text) < L => Len(requests) = 2
            /\ Len(call.text) >= L => EffectiveOps(requests, Len(call.text) + L) = 1

\* C5 amended: update_text plans 2 operations, insert then delete, for every
\* t and L; the delete range is empty, leaving the insert as the only
\* effective operation, exactly when the existing content is empty (L = 0).
C5_TwoOperationsAlways ==
    PlannedUpdate =>
        LET L == Len(ContentOf(before, call.element_id))
            requests == sent[1].requests
        IN  /\ Len(sent) = 1
            /\ Len(requests) = 2
            /\ requests[1].op = "insertText"
            /\ requests[2].op = "deleteText"
            /\ L = 0 => EffectiveOps(requests, Len(call.text) + L) = 1
            /\ L > 0 => EffectiveOps(requests, Len(call.text) + L) = 2

\* a new text at least as long as the content it replaces, with a delete
\* that still removes that content
C5_Witness ==
    /\ PlannedUpdate
    /\ outcome.status = "ok"
    /\ Len(ContentOf(before, call.element_id)) > 0
    /\ Len(call.text) >= Len(ContentOf(before, call.element_id))
    /\ EffectiveOps(sent[1].requests,
                    Len(call.text) + Len(ContentOf(before, call.element_id))) = 2

\* C7: the same update_text issued twice in a row leaves, after the second
\* call, the text content the first call left.
C7_Idempotent ==
    (call.tool = "update_text" /\ call.repeated) =>
        \A id \in TargetIds :
            HasShape(before, id) =>
                /\ HasShape(presentation, id)
                /\ ContentOf(presentation, id) = ContentOf(before, id)

\* a second, accepted update_text of a non-empty text
C7_Witness ==
    /\ call.tool = "update_text" /\ call.repeated
    /\ outcome.status = "ok"
    /\ call.text # <<>>
    /\ ContentOf(presentation, call.element_id) = call.text

-----------------------------------------------------------------------------
(* Batches *)

Usable(entry) == entry.has_id /\ entry.has_text

\* the (id, text) pairs a call is to write, in the order given
Pairs ==
    IF call.tool = "update_text" THEN <<Entry(call.element_id, call.text)>>
    ELSE SelectSeq(call.elements, Usable)

Planned ==
    /\ call.tool \in {"update_text", "replace_slide_elements"}
    /\ call.fault # "auth"

RECURSIVE RequestsOf(_)
RequestsOf(batches) ==
    IF batches = <<>> THEN <<>> ELSE Head(batches).requests \o RequestsOf(Tail(batches))

\* C6: in what update_text and replace_slide_elements submit, every pair is
\* an insert of the new text at index 0 followed at once by the delete from
\* index len(new text) on the same element, the pairs in the order of the
\* input list.
C6_InsertBeforeDelete ==
    Planned =>
        LET requests == RequestsOf(sent)
        IN  /\ Len(requests) = 2 * Len(Pairs)
            /\ \A k \in 1..Len(Pairs) :
                  /\ requests[2 * k - 1].op = "insertText"
                  /\ requests[2 * k - 1].objectId = Pairs[k].id
                  /\ requests[2 * k - 1].text = Pairs[k].text
                  /\ requests[2 * k - 1].index = 0
                  /\ requests[2 * k].op = "deleteText"
                  /\ requests[2 * k].objectId = Pairs[k].id
                  /\ requests[2 * k].index = Len(Pairs[k].text)

\* a list of two pairs for two elements, applied
C6_Witness ==
    /\ call.tool = "replace_slide_elements"
    /\ outcome.status = "ok"
    /\ Len(Pairs) = 2
    /\ Pairs[1].id # Pairs[2].id
    /\ Len(RequestsOf(sent)) = 4

\* the text a list of pairs leaves on an element: that of its last pair
LastText(pairs, id) ==
    pairs[CHOOSE k \in 1..Len(pairs) :
            pairs[k].id = id /\ \A j \in (k + 1)..Len(pairs) : pairs[j].id # id].text

\* C8: replace_slide_elements submits all its pairs in one batch: when the
\* batch is refused or fails, every text is what it was before the call, and
\* when it is accepted every pair has been applied.
C8_AllOrNothing ==
    call.tool = "replace_slide_elements" =>
        /\ Len(sent) <= 1
        /\ outcome.status = "raised" => presentation = before
        /\ outcome.status = "ok" =>
              \A k \in 1..Len(Pairs) :
                  ContentOf(presentation, Pairs[k].id) = LastText(Pairs, Pairs[k].id)

\* a refused batch whose first pair alone would have changed a text
C8_Witness ==
    /\ call.tool = "replace_slide_elements"
    /\ outcome.status = "raised"
    /\ Len(sent) = 1 /\ sent[1].verdict = "rejected"
    /\ Len(Pairs) = 2
    /\ HasShape(before, Pairs[1].id)
    /\ ContentOf(before, Pairs[1].id) # Pairs[1].text
    /\ ~HasShape(before, Pairs[2].id)
    /\ presentation = before

-----------------------------------------------------------------------------
(* Slide duplication *)

DuplicatedSlide ==
    /\ call.tool = "duplicate_slide"
    /\ call.fault = "none"
    /\ 1 <= call.slide_number /\ call.slide_number <= Len(before.slides)

-----------------------------------------------------------------------------
(* Synthesized element ids *)

\* the slide on which the presentation has a top-level element with an id
SlidesHolding(p, id) ==
    { n \in 1..Len(p.slides) :
        \E i \in 1..Len(p.slides[n].pageElements) : p.slides[n].pageElements[i].objectId = id }

\* C20: two add_element calls synthesize the same id exactly when they have
\* the same slide number and type; the element of the earlier call is still in
\* the presentation, so that the later call's creation names an id in use,
\* also when a duplicate_slide in between has moved the slide of the earlier
\* element to another number.
C20_IdCollision ==
    /\ \A i, j \in 1..Len(added) :
          added[i].id = added[j].id
            <=> (added[i].slide_number = added[j].slide_number /\ added[i].type = added[j].type)
    /\ \A i \in 1..Len(added) : SlidesHolding(presentation, added[i].id) # {}
    /\ (call.tool = "add_element" /\ sent # <<>>) =>
          LET id == sent[1].requests[1].objectId
          IN  /\ id = added[Len(added)].id
              /\ (\E i \in 1..(Len(added) - 1) : added[i].id = id)
                    => /\ id \in IdsInUse(before)
                       /\ sent[1].verdict = IF overwrites THEN "applied" ELSE "rejected"

\* a second add_element of the same type on the same slide number, after a
\* duplicate_slide has put another slide at that number: the id is that of
\* the element of the first call, which is on the slide now one further down
C20_Witness ==
    /\ call.tool = "add_element" /\ sent # <<>>
    /\ Len(added) = 2
    /\ added[1].id = added[2].id
    /\ SlidesHolding(before, added[2].id) = {call.slide_number + 1}
    /\ sent[1].verdict = "rejected"

-----------------------------------------------------------------------------
(* Element creation *)

AddedElement ==
    /\ call.tool = "add_element"
    /\ call.fault = "none"
    /\ 1 <= call.slide_number /\ call.slide_number <= Len(before.slides)

\* an element spec that cannot be created: an image without a URL or with an
\* empty one, or a type that is neither image nor table
InvalidElement(element) ==
    \/ ~element.type.present
    \/ element.type.value \notin {"image", "table"}
    \/ element.type.value = "image" /\ (~element.url.present \/ element.url.value = "")

PageOf(p) ==
    IF p.pageSize.present THEN p.pageSize
    ELSE PageSize(DefaultPageWidth, DefaultPageHeight, "PT")

\* the whole points that fit in a page dimension: one point is 12700 EMU
Points(dimension) ==
    IF dimension.unit = "EMU" THEN dimension.magnitude \div 12700 ELSE dimension.magnitude

\* C15: for every page size W x H and every position, the box of add_element
\* is 60% of W wide and 40% of H high, its left offset is 20% of W, its top
\* offset is 10% of H for top, 30% of H for center or no position, 50% of H
\* for bottom, and the box lies entirely inside the page.
C15_BoxGeometry ==
    (AddedElement /\ sent # <<>>) =>
        LET box == sent[1].requests[1].box
            page == PageOf(before)
            W == page.width.magnitude
            H == page.height.magnitude
            position == call.element.position
        IN  /\ 10 * box.width = 6 * W
            /\ 10 * box.height = 4 * H
            /\ 10 * box.translateX = 2 * W
            /\ position = Given("top") => 10 * box.translateY = H
            /\ position \in {Given("center"), Absent} => 10 * box.translateY = 3 * H
            /\ position = Given("bottom") => 10 * box.translateY = 5 * H
            /\ box.unit = "PT"
            /\ 0 <= box.translateX /\ box.translateX + box.width <= Points(page.width)
            /\ 0 <= box.translateY /\ box.translateY + box.height <= Points(page.height)

-----------------------------------------------------------------------------
(* The count of replace_slide_elements *)

\* C16: the updated count returned by replace_slide_elements is the number of
\* input entries for which an insert/delete pair was put in the submitted
\* batch, and a call whose list has no usable entry submits no batch.
C16_UpdatedCount ==
    (call.tool = "replace_slide_elements" /\ outcome.status = "ok") =>
        /\ 2 * outcome.value.updated = Len(RequestsOf(sent))
        /\ outcome.value.updated = Len(SelectSeq(call.elements, Usable))
        /\ SelectSeq(call.elements, Usable) = <<>> => sent = <<>>

-----------------------------------------------------------------------------
(* Dispatch of the registered tools *)

\* C17: a call of the registered update_text tool with a valid slide number,
\* an element of the presentation and a text, no style arguments given,
\* reaches the planner, submits one batch of the insert/delete pair of that
\* element and returns {success: true}; and no call of a registered tool
\* fails for want of a slides_tools function that takes its arguments.
C17_ServerDispatch ==
    /\ ( /\ call.tool = "update_text"
          /\ call.fault = "none"
          /\ 1 <= call.slide_number /\ call.slide_number <= Len(before.slides)
          /\ HasShape(before, call.element_id) )
        => /\ Len(sent) = 1
           /\ sent[1].requests = << InsertText(call.element_id, call.text, 0),
                                     DeleteText(call.element_id, Len(call.text)) >>
           /\ sent[1].verdict = "applied" => outcome = Returned([success |-> TRUE])
    /\ outcome.status = "raised" => outcome.error \notin {"TypeError", "AttributeError"}

-----------------------------------------------------------------------------
(* Between the operations of a batch *)

\* the document after the first k requests of the batch a call submitted
Between(k) == ApplyRequests(before, SubSeq(sent[1].requests, 1, k), tolerant)

IntermediateSteps == 1..(Len(sent[1].requests) - 1)

\* C18: in an update_text batch on an element, when the original text or the
\* new text is not empty, the text of the element is not empty in any state
\* between two operations of the batch, and the new text is there from the
\* first of these states on.
C18_NeverEmptyBetween ==
    ( /\ call.tool = "update_text"
      /\ sent # <<>>
      /\ HasShape(before, call.element_id)
      /\ (ContentOf(before, call.element_id) # <<>> \/ call.text # <<>>) )
    => \A k \in IntermediateSteps :
          Between(k).ok =>
              LET content == ContentOf(Between(k).presentation, call.element_id)
              IN  /\ content # <<>>
                  /\ Prefix(content, Len(call.text)) = call.text

\* an applied update of a text by another: between the insert and the delete
\* the element holds the new text followed by the old one
C18_Witness ==
    /\ call.tool = "update_text"
    /\ outcome.status = "ok"
    /\ call.text # <<>>
    /\ ContentOf(before, call.element_id) # <<>>
    /\ IntermediateSteps = {1}
    /\ ContentOf(Between(1).presentation, call.element_id)
          = call.text \o ContentOf(before, call.element_id)
    /\ ContentOf(presentation, call.element_id) = call.text

-----------------------------------------------------------------------------
(* Remote calls of a tool call *)

Reads == { i \in 1..Len(remote) : remote[i].api = "get" }
Writes == { i \in 1..Len(remote) : remote[i].api = "batchUpdate" }

\* C19: a tool call issues at most one read and at most one batch write, the
\* write after the read; when a read or a write fails, the call raises that
\* failure and issues no further remote call: nothing is tried again, nothing
\* is recovered locally, no success is returned.
C19_OneReadOneWrite ==
    call # NoCall =>
        /\ Cardinality(Reads) <= 1
        /\ Cardinality(Writes) <= 1
        /\ \A r \in Reads, w \in Writes : r < w
        /\ \A i \in 1..Len(remote) :
              ~remote[i].ok =>
                  /\ i = Len(remote)
                  /\ outcome.status = "raised"
                  /\ outcome.error \in {"TransportFailure", "HttpError"}
                  /\ presentation = before
        /\ outcome.status = "ok" => \A i \in 1..Len(remote) : remote[i].ok

\* a call that read the presentation and whose batch write then failed: it
\* raised after these two remote calls and left the document as it was
C19_Witness ==
    /\ call.tool \in {"add_element", "duplicate_slide"}
    /\ Len(remote) = 2
    /\ remote[1] = [api |-> "get", ok |-> TRUE]
    /\ remote[2] = [api |-> "batchUpdate", ok |-> FALSE]
    /\ outcome = Raised("TransportFailure")
    /\ presentation = before

-----------------------------------------------------------------------------
(* drive_client.get_drive_service: the stored credentials and, when they   *)
(* cannot be used, the authorization handshake.  The handshake blocks in   *)
(* handle_request until the browser calls back: GetDriveService runs up to *)
(* that wait, HandleRequest runs the callback and the rest of the function. *)

Tokens == {"absent", "valid", "expired", "unusable"}

Ports == 1..MaxPorts

States == {"s1", "s2"}

\* Python's None among the strings of the callback
Nothing == "None"

Socket(role, port, closed) == [role |-> role, port |-> port, closed |-> closed]

\* the ports that no open socket holds
FreePorts ==
    { p \in Ports : \A i \in 1..Len(sockets) : sockets[i].closed \/ sockets[i].port # p }

Probes == { i \in 1..Len(sockets) : sockets[i].role = "probe" }

\* callback_data = {'code': None, 'error': None}; .get('state') is None
NoCallback == [code |-> Nothing, error |-> Nothing, state |-> Nothing]

Query(code, state, error) == [code |-> code, state |-> state, error |-> error]

Queries ==
    { Query(code, state, error) :
        code \in {Absent, Given("c")},
        state \in {Absent} \cup { Given(st) : st \in States },
        error \in {Absent, Given("access_denied")} }

\* CallbackHandler.do_GET: the code first, then the error, else nothing
do_GET(query) ==
    IF query.code.present
    THEN [code |-> query.code.value,
          error |-> Nothing,
          state |-> IF query.state.present THEN query.state.value ELSE Nothing]
    ELSE IF query.error.present
         THEN [NoCallback EXCEPT !.error = query.error.value]
         ELSE NoCallback

OAuthError == "Exception: OAuth error"
NoCode == "Exception: No authorization code received"
StateMismatch == "Exception: State mismatch - possible CSRF attack"
ExchangeFailure == "fetch_token failed"
Service == "service"

\* what follows handle_request: the three checks, then the token exchange
after_callback(callback_data, state, exchanges) ==
    IF callback_data.error # Nothing THEN Raised(OAuthError)
    ELSE IF callback_data.code = Nothing THEN Raised(NoCode)
    ELSE IF callback_data.state # state THEN Raised(StateMismatch)
    ELSE IF ~exchanges THEN Raised(ExchangeFailure)
    ELSE Returned(Service)

Left(result, opened) ==
    [pc |-> IF result.status = "ok" THEN "returned" ELSE "raised",
     result |-> result, opened |-> opened]

close(socks, i) == [socks EXCEPT ![i].closed = TRUE]

AllClosed(socks) == [ i \in 1..Len(socks) |-> [socks[i] EXCEPT !.closed = TRUE] ]

\* get_drive_service from its first line to the wait in handle_request, or
\* to its end when no callback is needed
GetDriveService(secret_set, token_set, refreshes, secrets_readable) ==
    /\ handshake.pc = "idle"
    /\ IF ~secret_set
       THEN /\ handshake' = Left(Raised("ValueError: OAUTH_CLIENT_SECRET"), {})
            /\ UNCHANGED <<token_file, sockets>>
       ELSE IF ~token_set
       THEN /\ handshake' = Left(Raised("ValueError: OAUTH_CLIENT_TOKEN"), {})
            /\ UNCHANGED <<token_file, sockets>>
       ELSE IF token_file = "valid"
       THEN /\ handshake' = Left(Returned(Service), {})
            /\ UNCHANGED <<token_file, sockets>>
       ELSE IF token_file = "expired"
       THEN /\ UNCHANGED sockets
            /\ IF refreshes
               THEN /\ token_file' = "valid"
                    /\ handshake' = Left(Returned(Service), {})
               ELSE /\ handshake' = Left(Raised("RefreshError"), {})
                    /\ UNCHANGED token_file
       ELSE /\ Cardinality(Probes) < MaxHandshakes
            /\ UNCHANGED token_file
            /\ \E port \in FreePorts, state \in States :
                  LET probe == Len(sockets) + 1
                      \* sock = socket.socket(...); sock.bind(...); sock.close()
                      probed == close(Append(sockets, Socket("probe", port, FALSE)), probe)
                  IN  IF ~secrets_readable
                      THEN /\ sockets' = probed
                           /\ handshake' = Left(Raised("from_client_secrets_file failed"), {probe})
                      ELSE \* server = HTTPServer(('localhost', port), CallbackHandler)
                           /\ sockets' = Append(probed, Socket("listener", port, FALSE))
                           /\ handshake' = [pc |-> "waiting", port |-> port, state |-> state,
                                            opened |-> {probe, probe + 1}]
    /\ UNCHANGED <<presentation, tolerant, before, call, outcome, sent, remote,
                   overwrites, added>>

\* server.handle_request() with one callback, and the function to its end.
\* The function never closes the server: when it returns, its listening
\* socket is closed only if the runtime finalizes the dropped server object
\* at once (reclaimed); when it raises, the traceback keeps the frame, and
\* with it the server, alive.
HandleRequest(query, exchanges, reclaimed) ==
    /\ handshake.pc = "waiting"
    /\ LET callback_data == do_GET(query)
           result == after_callback(callback_data, handshake.state, exchanges)
           listener == CHOOSE i \in handshake.opened : sockets[i].role = "listener"
       IN  /\ handshake' = Left(result, handshake.opened)
           /\ IF result.status = "ok"
              THEN /\ token_file' = "valid"
                   /\ sockets' = IF reclaimed THEN close(sockets, listener) ELSE sockets
              ELSE UNCHANGED <<token_file, sockets>>
    /\ UNCHANGED <<presentation, tolerant, before, call, outcome, sent, remote,
                   overwrites, added>>

\* the caller goes on with the handle or with the exception; the objects
\* get_drive_service dropped may be finalized by now
Resume(finalized) ==
    /\ handshake.pc \in {"returned", "raised"}
    /\ handshake' = Idle
    /\ sockets' = IF finalized THEN AllClosed(sockets) ELSE sockets
    /\ UNCHANGED <<presentation, tolerant, before, call, outcome, sent, remote,
                   overwrites, added, token_file>>

InitAuth ==
    /\ presentation = Presentation(<<>>)
    /\ tolerant = FALSE
    /\ before = presentation
    /\ call = NoCall
    /\ outcome = NoOutcome
    /\ sent = <<>>
    /\ remote = <<>>
    /\ overwrites = FALSE
    /\ added = <<>>
    /\ token_file \in Tokens
    /\ sockets = <<>>
    /\ handshake = Idle

NextAuth ==
    \/ \E secret_set, token_set, refreshes, secrets_readable \in BOOLEAN :
          GetDriveService(secret_set, token_set, refreshes, secrets_readable)
    \/ \E query \in Queries, exchanges, reclaimed \in BOOLEAN :
          HandleRequest(query, exchanges, reclaimed)
    \/ \E finalized \in BOOLEAN : Resume(finalized)

SpecAuth == InitAuth /\ [][NextAuth]_vars

-----------------------------------------------------------------------------
\* the sockets this run of get_drive_service opened and has not closed
StillOpen == { i \in handshake.opened : ~sockets[i].closed }

\* C21: when get_drive_service returns or raises, whatever the way out of the
\* handshake (code received, error callback, callback with neither, state
\* mismatch, token exchange failed), every socket it opened for the callback
\* listener, the port probe and the server's listening socket, is closed.
C21_SocketsReleased ==
    handshake.pc \in {"returned", "raised"} => StillOpen = {}

====
